---------------------------- MODULE Spec2Model ----------------------------
(***************************************************************************)
(* Model of the decoding primitives of github-actions-models:              *)
(*   - the `uses:` reference parser (src/src/common.rs): Uses::from_str,   *)
(*     its three sub-parsers, step_uses and reusable_step_uses;            *)
(*   - ExplicitExpr and LoE<T> (src/src/common/expr.rs), with If;          *)
(*   - OptionalBody<T> and Events (src/src/workflow/event.rs);             *)
(*   - scalar_or_vector, bool_is_string (src/src/common.rs) and RunsOn     *)
(*     (src/src/workflow/job.rs).                                          *)
(* Each part has its own specification over the same variables; the       *)
(* variables of the other parts stay at their initial values.              *)
(*                                                                         *)
(* A Rust string is a sequence of one-character strings, Option<T> is a    *)
(* sequence of length 0 (None) or 1 (Some), Result<T, E> is a record with  *)
(* an `ok` flag.  The inputs of the `uses:` parser are ASCII, so byte      *)
(* offsets and character offsets coincide.  A character without an escape  *)
(* is written as its code point ("U+000B").                                *)
(***************************************************************************)
EXTENDS Naturals, Sequences, FiniteSets

VARIABLES
    deIsStr,   \* whether the value handed to serde decodes as a `&str`
    input,     \* the string under parse
    op,        \* the entry point that ran last ("none" before any call)
    result,    \* what that entry point returned
    de,        \* the YAML value handed to a serde decoder
    expr,      \* the ExplicitExpr constructed last, if any (an Option)
    events     \* the Events decoded last, if any (an Option)

vars == <<deIsStr, input, op, result, de, expr, events>>

---------------------------------------------------------------------------
(* Bounds of the input space *)

MaxLen == 4

Alphabet == {"/", "@", ":", ".", "a"}

---------------------------------------------------------------------------
(* String literals of the source *)

\* The character U+0060 (grave accent), which the lexer of TLA+ does not
\* accept inside a string
Backtick == "U+0060"

DotSlash == <<".", "/">>

DockerPrefix == <<"d", "o", "c", "k", "e", "r", ":", "/", "/">>

Localhost == <<"l", "o", "c", "a", "l", "h", "o", "s", "t">>

SlugTooShort ==
    <<"o", "w", "n", "e", "r", "/", "r", "e", "p", "o", " ", "s", "l", "u",
      "g", " ", "i", "s", " ", "t", "o", "o", " ", "s", "h", "o", "r", "t",
      ":", " ">>

MalformedUses ==
    <<"m", "a", "l", "f", "o", "r", "m", "e", "d", " ", Backtick, "u", "s", "e",
      "s", Backtick, " ", "r", "e", "f", ":", " ">>

RepoNeedsRef ==
    <<"r", "e", "p", "o", " ", "a", "c", "t", "i", "o", "n", " ", "m", "u",
      "s", "t", " ", "h", "a", "v", "e", " ", Backtick, "@", "<", "r", "e", "f",
      ">", Backtick, " ", "i", "n", " ", "r", "e", "u", "s", "a", "b", "l", "e",
      " ", "w", "o", "r", "k", "f", "l", "o", "w">>

LocalHasRef ==
    <<"l", "o", "c", "a", "l", " ", "r", "e", "u", "s", "a", "b", "l", "e",
      " ", "w", "o", "r", "k", "f", "l", "o", "w", " ", "r", "e", "f", "e",
      "r", "e", "n", "c", "e", " ", "c", "a", "n", "'", "t", " ", "s", "p",
      "e", "c", "i", "f", "y", " ", Backtick, "@", "<", "r", "e", "f", ">", Backtick>>

DockerInvalid ==
    <<"d", "o", "c", "k", "e", "r", " ", "a", "c", "t", "i", "o", "n", " ",
      "i", "n", "v", "a", "l", "i", "d", " ", "i", "n", " ", "r", "e", "u",
      "s", "a", "b", "l", "e", " ", "w", "o", "r", "k", "f", "l", "o", "w",
      " ", Backtick, "u", "s", "e", "s", Backtick>>

---------------------------------------------------------------------------
(* Option and Result *)

None == <<>>

Some(x) == <<x>>

IsSome(o) == Len(o) = 1

IsNone(o) == Len(o) = 0

Unwrap(o) == o[1]

Ok(v) == [ok |-> TRUE, val |-> v]

Err(e) == [ok |-> FALSE, err |-> e]

---------------------------------------------------------------------------
(* YAML values, as serde presents them to a decoder *)

Null == [kind |-> "null"]

Bool(b) == [kind |-> "bool", b |-> b]

Str(s) == [kind |-> "str", s |-> s]

\* A mapping: a function from the keys it holds to their values
Map(m) == [kind |-> "map", entries |-> m]

---------------------------------------------------------------------------
(* str primitives of the standard library, as the parser uses them *)

\* str::contains(char)
Contains(s, c) == \E i \in 1..Len(s) : s[i] = c

\* str::starts_with(&str)
StartsWith(s, p) == Len(s) >= Len(p) /\ SubSeq(s, 1, Len(p)) = p

\* str::strip_prefix(&str)
StripPrefix(s, p) ==
    IF StartsWith(s, p) THEN Some(SubSeq(s, Len(p) + 1, Len(s))) ELSE None

\* str::find(char): 0-based offset of the first occurrence
Find(s, c) ==
    IF Contains(s, c)
    THEN Some((CHOOSE i \in 1..Len(s) :
                   s[i] = c /\ \A j \in 1..(i - 1) : s[j] # c) - 1)
    ELSE None

\* str::rfind(char): 0-based offset of the last occurrence
RFind(s, c) ==
    IF Contains(s, c)
    THEN Some((CHOOSE i \in 1..Len(s) :
                   s[i] = c /\ \A j \in (i + 1)..Len(s) : s[j] # c) - 1)
    ELSE None

\* str::split_at(mid): (s[..mid], s[mid..])
SplitAt(s, mid) == <<SubSeq(s, 1, mid), SubSeq(s, mid + 1, Len(s))>>

\* str::split_once(char): split around the first occurrence
SplitOnce(s, c) ==
    LET pos == Find(s, c)
    IN  IF IsSome(pos)
        THEN Some(<<SubSeq(s, 1, Unwrap(pos)),
                    SubSeq(s, Unwrap(pos) + 2, Len(s))>>)
        ELSE None

\* Mutant of RSplitOnce: splits around the first occurrence
RSplitOnce_first(s, c) == SplitOnce(s, c)

\* str::rsplit_once(char): split around the last occurrence
RSplitOnce(s, c) ==
    LET pos == RFind(s, c)
    IN  IF IsSome(pos)
        THEN Some(<<SubSeq(s, 1, Unwrap(pos)),
                    SubSeq(s, Unwrap(pos) + 2, Len(s))>>)
        ELSE None

\* Mutant of SplitN: str::split(char), which ignores the limit
RECURSIVE SplitN_unlimited(_, _, _)
SplitN_unlimited(n, s, c) ==
    LET pos == Find(s, c)
    IN  IF IsNone(pos) THEN <<s>>
        ELSE <<SubSeq(s, 1, Unwrap(pos))>>
                 \o SplitN_unlimited(n, SubSeq(s, Unwrap(pos) + 2, Len(s)), c)

\* str::splitn(n, char), collected: at most n pieces, the last one holding
\* the unsplit remainder
RECURSIVE SplitN(_, _, _)
SplitN(n, s, c) ==
    IF n = 0 THEN <<>>
    ELSE IF n = 1 THEN <<s>>
    ELSE LET pos == Find(s, c)
         IN  IF IsNone(pos) THEN <<s>>
             ELSE <<SubSeq(s, 1, Unwrap(pos))>>
                      \o SplitN(n - 1, SubSeq(s, Unwrap(pos) + 2, Len(s)), c)

\* slice::get(i) on the collected components (0-based)
Get(v, i) == IF i < Len(v) THEN Some(v[i + 1]) ELSE None

---------------------------------------------------------------------------
(* The sub-parsers *)

\* Mutant of LocalUses_from_str: cuts the path at the first `@`
LocalUses_from_str_cut(uses) ==
    LET split == SplitOnce(uses, "@")
    IN  Ok([path |-> IF IsSome(split) THEN Unwrap(split)[1] ELSE uses])

\* impl FromStr for LocalUses
LocalUses_from_str(uses) == Ok([path |-> uses])

\* Mutant of RepositoryUses_from_str: the error quotes the un-reffed path
RepositoryUses_from_str_path(uses) ==
    LET split      == RSplitOnce(uses, "@")
        path       == IF IsSome(split) THEN Unwrap(split)[1] ELSE uses
        git_ref    == IF IsSome(split) THEN Some(Unwrap(split)[2]) ELSE None
        components == SplitN(3, path, "/")
    IN  IF Len(components) < 2
        THEN Err(SlugTooShort \o path)
        ELSE Ok([owner   |-> components[1],
                 repo    |-> components[2],
                 subpath |-> Get(components, 2),
                 git_ref |-> git_ref])

\* A variant of RepositoryUses::from_str that takes an empty subpath for no
\* subpath
RepositoryUses_from_str_no_empty_subpath(uses) ==
    LET split      == RSplitOnce(uses, "@")
        path       == IF IsSome(split) THEN Unwrap(split)[1] ELSE uses
        git_ref    == IF IsSome(split) THEN Some(Unwrap(split)[2]) ELSE None
        components == SplitN(3, path, "/")
    IN  IF Len(components) < 2
        THEN Err(SlugTooShort \o uses)
        ELSE Ok([owner   |-> components[1],
                 repo    |-> components[2],
                 subpath |-> IF Get(components, 2) = Some(<<>>) THEN None
                             ELSE Get(components, 2),
                 git_ref |-> git_ref])

\* impl FromStr for RepositoryUses
RepositoryUses_from_str(uses) ==
    LET split      == RSplitOnce(uses, "@")
        path       == IF IsSome(split) THEN Unwrap(split)[1] ELSE uses
        git_ref    == IF IsSome(split) THEN Some(Unwrap(split)[2]) ELSE None
        components == SplitN(3, path, "/")
    IN  IF Len(components) < 2
        THEN Err(SlugTooShort \o uses)
        ELSE Ok([owner   |-> components[1],
                 repo    |-> components[2],
                 subpath |-> Get(components, 2),
                 git_ref |-> git_ref])

\* Mutant of is_registry: a port separator alone does not make a registry
is_registry_no_port(registry) ==
    registry = Localhost \/ Contains(registry, ".")

\* DockerUses::is_registry
is_registry(registry) ==
    registry = Localhost \/ Contains(registry, ".") \/ Contains(registry, ":")

\* The first `match` of DockerUses::from_str: (registry, image)
DockerSplitRegistry(uses) ==
    LET split == SplitOnce(uses, "/")
    IN  IF IsSome(split) /\ is_registry(Unwrap(split)[1])
        THEN <<Some(Unwrap(split)[1]), Unwrap(split)[2]>>
        ELSE <<None, uses>>

\* The `hash` binding of DockerUses::from_str, from the second half of
\* split_at(at_pos); that half starts at the `@` itself
DockerHash(hash) ==
    IF Len(hash) = 0 THEN None ELSE Some(SubSeq(hash, 2, Len(hash)))

\* Mutant of DockerSplitTag: the `Some((image, ""))` arm is missing
DockerSplitTag_keep_empty(image) ==
    LET split == SplitOnce(image, ":")
    IN  IF IsSome(split)
        THEN <<Unwrap(split)[1], Some(Unwrap(split)[2])>>
        ELSE <<image, None>>

\* The `(image, tag)` match of DockerUses::from_str
DockerSplitTag(image) ==
    LET split == SplitOnce(image, ":")
    IN  IF IsSome(split) /\ Unwrap(split)[2] = <<>>
        THEN <<Unwrap(split)[1], None>>
        ELSE IF IsSome(split)
        THEN <<Unwrap(split)[1], Some(Unwrap(split)[2])>>
        ELSE <<image, None>>

\* Mutant of DockerUses_from_str: the text before the `@` goes through the
\* tag split as well
DockerUses_from_str_tag_and_hash(uses) ==
    LET ri       == DockerSplitRegistry(uses)
        registry == ri[1]
        image    == ri[2]
        at_pos   == Find(image, "@")
    IN  IF IsSome(at_pos)
        THEN LET halves == SplitAt(image, Unwrap(at_pos))
                 it     == DockerSplitTag(halves[1])
             IN  Ok([registry |-> registry,
                     image    |-> it[1],
                     tag      |-> it[2],
                     hash     |-> DockerHash(halves[2])])
        ELSE LET it == DockerSplitTag(image)
             IN  Ok([registry |-> registry,
                     image    |-> it[1],
                     tag      |-> it[2],
                     hash     |-> None])

\* impl FromStr for DockerUses
DockerUses_from_str(uses) ==
    LET ri       == DockerSplitRegistry(uses)
        registry == ri[1]
        image    == ri[2]
        at_pos   == Find(image, "@")
    IN  IF IsSome(at_pos)
        THEN LET halves == SplitAt(image, Unwrap(at_pos))
             IN  Ok([registry |-> registry,
                     image    |-> halves[1],
                     tag      |-> None,
                     hash     |-> DockerHash(halves[2])])
        ELSE LET it == DockerSplitTag(image)
             IN  Ok([registry |-> registry,
                     image    |-> it[1],
                     tag      |-> it[2],
                     hash     |-> None])

---------------------------------------------------------------------------
(* Uses and the serde entry points *)

\* Result::map(Self::Local) and its siblings: wrap a value of a sub-parser in
\* the Uses variant, pass an error through
MapKind(r, kind) ==
    IF r.ok THEN Ok([kind |-> kind, uses |-> r.val]) ELSE r

\* Mutant of Uses_from_str: a leading `.` alone selects the Local kind
Uses_from_str_dot(uses) ==
    IF StartsWith(uses, <<".">>)
    THEN MapKind(LocalUses_from_str(uses), "Local")
    ELSE LET image == StripPrefix(uses, DockerPrefix)
         IN  IF IsSome(image)
             THEN MapKind(DockerUses_from_str(Unwrap(image)), "Docker")
             ELSE MapKind(RepositoryUses_from_str(uses), "Repository")

\* impl FromStr for Uses
Uses_from_str(uses) ==
    IF StartsWith(uses, DotSlash)
    THEN MapKind(LocalUses_from_str(uses), "Local")
    ELSE LET image == StripPrefix(uses, DockerPrefix)
         IN  IF IsSome(image)
             THEN MapKind(DockerUses_from_str(Unwrap(image)), "Docker")
             ELSE MapKind(RepositoryUses_from_str(uses), "Repository")

\* de::Error::custom(msg)
Custom(msg) == [kind |-> "custom", msg |-> msg]

\* The error of `<&str>::deserialize` on a value that is not a string
InvalidType == [kind |-> "invalid_type", msg |-> <<>>]

\* step_uses
step_uses(isStr, s) ==
    IF ~isStr THEN Err(InvalidType)
    ELSE LET r == Uses_from_str(s)
         IN  IF r.ok THEN r ELSE Err(Custom(MalformedUses \o r.err))

\* Mutant of reusable_step_uses: an empty ref counts as no ref
reusable_step_uses_empty_ref(isStr, s) ==
    LET r == step_uses(isStr, s)
    IN  IF ~r.ok THEN r
        ELSE IF r.val.kind = "Repository"
        THEN IF IsNone(r.val.uses.git_ref) \/ r.val.uses.git_ref = Some(<<>>)
             THEN Err(Custom(RepoNeedsRef))
             ELSE r
        ELSE IF r.val.kind = "Local"
        THEN IF Contains(r.val.uses.path, "@")
             THEN Err(Custom(LocalHasRef))
             ELSE r
        ELSE Err(Custom(DockerInvalid))

\* Mutant of reusable_step_uses: only the last segment of a local path is
\* scanned for `@`
reusable_step_uses_local_tail(isStr, s) ==
    LET r == step_uses(isStr, s)
    IN  IF ~r.ok THEN r
        ELSE IF r.val.kind = "Repository"
        THEN IF IsNone(r.val.uses.git_ref)
             THEN Err(Custom(RepoNeedsRef))
             ELSE r
        ELSE IF r.val.kind = "Local"
        THEN IF Contains(Unwrap(RSplitOnce(r.val.uses.path, "/"))[2], "@")
             THEN Err(Custom(LocalHasRef))
             ELSE r
        ELSE Err(Custom(DockerInvalid))

\* Mutant of reusable_step_uses: the Docker arm returns the reference
reusable_step_uses_docker_ok(isStr, s) ==
    LET r == step_uses(isStr, s)
    IN  IF ~r.ok THEN r
        ELSE IF r.val.kind = "Repository"
        THEN IF IsNone(r.val.uses.git_ref)
             THEN Err(Custom(RepoNeedsRef))
             ELSE r
        ELSE IF r.val.kind = "Local"
        THEN IF Contains(r.val.uses.path, "@")
             THEN Err(Custom(LocalHasRef))
             ELSE r
        ELSE r

\* A variant of reusable_step_uses that cuts the `@<ref>` off a local path
\* instead of rejecting it
reusable_step_uses_strip_local_ref(isStr, s) ==
    LET r == step_uses(isStr, s)
    IN  IF ~r.ok THEN r
        ELSE IF r.val.kind = "Repository"
        THEN IF IsNone(r.val.uses.git_ref)
             THEN Err(Custom(RepoNeedsRef))
             ELSE r
        ELSE IF r.val.kind = "Local"
        THEN IF Contains(r.val.uses.path, "@")
             THEN Ok([kind |-> "Local",
                      uses |-> [path |->
                                    Unwrap(RSplitOnce(r.val.uses.path,
                                                      "@"))[1]]])
             ELSE r
        ELSE Err(Custom(DockerInvalid))

\* reusable_step_uses
reusable_step_uses(isStr, s) ==
    LET r == step_uses(isStr, s)
    IN  IF ~r.ok THEN r
        ELSE IF r.val.kind = "Repository"
        THEN IF IsNone(r.val.uses.git_ref)
             THEN Err(Custom(RepoNeedsRef))
             ELSE r
        ELSE IF r.val.kind = "Local"
        THEN IF Contains(r.val.uses.path, "@")
             THEN Err(Custom(LocalHasRef))
             ELSE r
        ELSE Err(Custom(DockerInvalid))

---------------------------------------------------------------------------
(* The state machine: one input, parsed by any entry point, any number of  *)
(* times (the parser keeps no state between calls).                        *)

Tails == UNION {[1..n -> Alphabet] : n \in 0..MaxLen}

Heads == {<<>>, DotSlash, DockerPrefix}

Hosts == {<<>>, Localhost}

Inputs == {p \o h \o t : p \in Heads, h \in Hosts, t \in Tails}

\* A value that is not a string carries no text
Init ==
    /\ \/ deIsStr = TRUE /\ input \in Inputs
       \/ deIsStr = FALSE /\ input = <<>>
    /\ op = "none"
    /\ result = Err(<<>>)
    /\ de = Null
    /\ expr = None
    /\ events = None

ParseUses ==
    /\ op' = "Uses::from_str"
    /\ result' = Uses_from_str(input)
    /\ UNCHANGED <<deIsStr, input, de, expr, events>>

ParseLocal ==
    /\ op' = "LocalUses::from_str"
    /\ result' = LocalUses_from_str(input)
    /\ UNCHANGED <<deIsStr, input, de, expr, events>>

ParseRepository ==
    /\ op' = "RepositoryUses::from_str"
    /\ result' = RepositoryUses_from_str(input)
    /\ UNCHANGED <<deIsStr, input, de, expr, events>>

ParseDocker ==
    /\ op' = "DockerUses::from_str"
    /\ result' = DockerUses_from_str(input)
    /\ UNCHANGED <<deIsStr, input, de, expr, events>>

StepUses ==
    /\ op' = "step_uses"
    /\ result' = step_uses(deIsStr, input)
    /\ UNCHANGED <<deIsStr, input, de, expr, events>>

ReusableStepUses ==
    /\ op' = "reusable_step_uses"
    /\ result' = reusable_step_uses(deIsStr, input)
    /\ UNCHANGED <<deIsStr, input, de, expr, events>>

Next ==
    \/ ParseUses
    \/ ParseLocal
    \/ ParseRepository
    \/ ParseDocker
    \/ StepUses
    \/ ReusableStepUses

Spec == Init /\ [][Next]_vars

TypeOK ==
    /\ deIsStr \in BOOLEAN
    /\ input \in Inputs
    /\ op \in {"none", "Uses::from_str", "LocalUses::from_str",
               "RepositoryUses::from_str", "DockerUses::from_str",
               "step_uses", "reusable_step_uses"}
    /\ result.ok \in BOOLEAN

---------------------------------------------------------------------------
(* Vocabulary of the properties: positions of a character in a string,     *)
(* stated on the input text itself, and the views of the last result.      *)

IndicesOf(s, c) == {i \in 1..Len(s) : s[i] = c}

FirstIndex(s, c) ==
    CHOOSE i \in IndicesOf(s, c) : \A j \in IndicesOf(s, c) : i <= j

LastIndex(s, c) ==
    CHOOSE i \in IndicesOf(s, c) : \A j \in IndicesOf(s, c) : j <= i

Before(s, i) == SubSeq(s, 1, i - 1)

After(s, i) == SubSeq(s, i + 1, Len(s))

HasLocalPrefix(s) == Len(s) >= 2 /\ s[1] = "." /\ s[2] = "/"

HasDockerPrefix(s) ==
    /\ Len(s) >= Len(DockerPrefix)
    /\ \A i \in 1..Len(DockerPrefix) : s[i] = DockerPrefix[i]

\* The text of a repository reference that precedes its last `@`
UnreffedPath(s) ==
    IF IndicesOf(s, "@") = {} THEN s ELSE Before(s, LastIndex(s, "@"))

\* The text an optional string stands for
OptText(o) == IF IsSome(o) THEN Unwrap(o) ELSE <<>>

\* The entry points that return a Uses
UsesOps == {"Uses::from_str", "step_uses", "reusable_step_uses"}

\* The last call produced a RepositoryUses, directly or inside a Uses
RepoParsed ==
    \/ op = "RepositoryUses::from_str" /\ result.ok
    \/ op \in UsesOps /\ result.ok /\ result.val.kind = "Repository"

RepoValue ==
    IF op = "RepositoryUses::from_str" THEN result.val ELSE result.val.uses

\* The last call produced a DockerUses, directly or inside a Uses
DockerParsed ==
    \/ op = "DockerUses::from_str" /\ result.ok
    \/ op \in UsesOps /\ result.ok /\ result.val.kind = "Docker"

DockerValue ==
    IF op = "DockerUses::from_str" THEN result.val ELSE result.val.uses

\* The text the Docker parser was given: the input itself when called
\* directly, the input without its `docker://` when reached through Uses
DockerSource ==
    IF op = "DockerUses::from_str"
    THEN input
    ELSE SubSeq(input, Len(DockerPrefix) + 1, Len(input))

\* The image portion of the Docker text: what follows the registry and
\* its `/` when a registry was recognised, the whole text otherwise
ImagePortion ==
    IF IsSome(DockerValue.registry)
    THEN SubSeq(DockerSource, Len(Unwrap(DockerValue.registry)) + 2,
                Len(DockerSource))
    ELSE DockerSource

---------------------------------------------------------------------------
(* Properties of Uses::from_str and its sub-parsers *)

\* C1: Uses::from_str dispatches in a fixed order: an input starting with
\* `./` yields Local; otherwise an input starting with `docker://` yields
\* Docker, parsed from the text after that prefix; every other input goes
\* to the Repository parser, whose value or error is returned.
C1_DispatchOrder ==
    op = "Uses::from_str" =>
        IF HasLocalPrefix(input)
        THEN result.ok /\ result.val.kind = "Local"
        ELSE IF HasDockerPrefix(input)
        THEN /\ result.ok
             /\ result.val.kind = "Docker"
             /\ Ok(result.val.uses)
                    = DockerUses_from_str(After(input, Len(DockerPrefix)))
        ELSE IF result.ok
        THEN /\ result.val.kind = "Repository"
             /\ Ok(result.val.uses) = RepositoryUses_from_str(input)
        ELSE result = RepositoryUses_from_str(input)

\* A relative path without `./` was parsed as a repository reference
C1_Witness ==
    /\ op = "Uses::from_str"
    /\ Len(input) >= 1 /\ input[1] = "." /\ ~HasLocalPrefix(input)
    /\ Contains(input, "/")
    /\ result.ok /\ result.val.kind = "Repository"

\* C2: Repository parsing splits on the last `@`: git_ref is the text after
\* the last `@` and owner/repo/subpath spell the text before it; without
\* any `@`, git_ref is absent and they spell the whole input.
C2_SplitOnLastAt ==
    RepoParsed =>
        LET r    == RepoValue
            path == r.owner \o <<"/">> \o r.repo
                        \o (IF IsSome(r.subpath)
                            THEN <<"/">> \o Unwrap(r.subpath) ELSE <<>>)
        IN  IF IndicesOf(input, "@") # {}
            THEN /\ r.git_ref = Some(After(input, LastIndex(input, "@")))
                 /\ path = Before(input, LastIndex(input, "@"))
            ELSE /\ r.git_ref = None
                 /\ path = input

\* A reference holding two `@` was parsed
C2_Witness ==
    /\ RepoParsed
    /\ Cardinality(IndicesOf(input, "@")) >= 2
    /\ IsSome(RepoValue.git_ref)

\* C3: the un-reffed path is cut at its first two `/`: owner precedes the
\* first, repo lies between the first and the second, subpath is all that
\* follows the second; subpath is absent exactly when the path holds a
\* single `/`.
C3_ThreeComponents ==
    RepoParsed =>
        LET r       == RepoValue
            path    == UnreffedPath(input)
            slashes == IndicesOf(path, "/")
        IN  /\ slashes # {}
            /\ LET f == FirstIndex(path, "/")
               IN  /\ r.owner = Before(path, f)
                   /\ IF Cardinality(slashes) = 1
                      THEN /\ r.repo = After(path, f)
                           /\ r.subpath = None
                      ELSE LET g == f + FirstIndex(After(path, f), "/")
                           IN  /\ r.repo = SubSeq(path, f + 1, g - 1)
                               /\ r.subpath = Some(After(path, g))
            /\ (IsNone(r.subpath) <=> Cardinality(slashes) = 1)

\* A subpath that itself holds a `/` was kept whole
C3_Witness ==
    /\ RepoParsed
    /\ IsSome(RepoValue.subpath)
    /\ Contains(Unwrap(RepoValue.subpath), "/")

\* C4: Uses::from_str fails iff the input goes to the Repository parser and
\* the text before its last `@` holds no `/`; the error is the slug-too-
\* short text followed by the whole input.  Local and Docker inputs never
\* fail, and empty owner or repo components are accepted.
C4_OnlyFailure ==
    op = "Uses::from_str" =>
        /\ ~result.ok <=>
               /\ ~HasLocalPrefix(input)
               /\ ~HasDockerPrefix(input)
               /\ IndicesOf(UnreffedPath(input), "/") = {}
        /\ ~result.ok => result.err = SlugTooShort \o input
        /\ input = <<"/">> =>
               /\ result.ok
               /\ result.val.uses.owner = <<>>
               /\ result.val.uses.repo = <<>>

\* A reference failed although it holds a `/` (after its last `@`) and a ref
C4_Witness ==
    /\ op = "Uses::from_str"
    /\ ~result.ok
    /\ Contains(input, "/")
    /\ Contains(input, "@")

\* C5: for an input starting with `./`, Uses::from_str returns Local whose
\* path is the whole input, `./` and every `@` included; it never fails.
C5_LocalVerbatim ==
    (op = "Uses::from_str" /\ HasLocalPrefix(input)) =>
        /\ result.ok
        /\ result.val.kind = "Local"
        /\ result.val.uses.path = input

\* A local reference holding an `@` was parsed
C5_Witness ==
    /\ op = "Uses::from_str"
    /\ HasLocalPrefix(input)
    /\ Contains(input, "@")
    /\ result.ok

\* C6: a parsed Docker reference never carries both a tag and a digest:
\* when the image portion holds an `@`, image is the text before the first
\* `@`, the digest is the text after it and tag is absent, whatever `:`
\* stand on either side; a tag comes only from an image portion without `@`.
C6_TagXorDigest ==
    DockerParsed =>
        LET d   == DockerValue
            img == ImagePortion
        IN  /\ ~(IsSome(d.tag) /\ IsSome(d.hash))
            /\ IndicesOf(img, "@") # {} =>
                   /\ d.image = Before(img, FirstIndex(img, "@"))
                   /\ OptText(d.hash) = After(img, FirstIndex(img, "@"))
                   /\ d.tag = None
            /\ IsSome(d.tag) => IndicesOf(img, "@") = {}

\* A digest was parsed next to an image text that keeps its `:`
C6_Witness ==
    /\ DockerParsed
    /\ IsSome(DockerValue.hash)
    /\ Contains(DockerValue.image, ":")
    /\ IsNone(DockerValue.tag)

\* C7: an image portion whose first `@` is followed by nothing (a trailing
\* bare `@`) parses to a reference whose digest is absent.
C7_EmptyDigestIsNone ==
    (/\ DockerParsed
     /\ IndicesOf(ImagePortion, "@") # {}
     /\ After(ImagePortion, FirstIndex(ImagePortion, "@")) = <<>>)
        => IsNone(DockerValue.hash)

\* C8: the Docker text is split on its first `/`, and the segment before it
\* is the registry iff it equals `localhost`, holds a `.` or holds a `:`;
\* with no `/`, or a segment failing that test, registry is absent and the
\* image name is read from the whole text, first segment included.
C8_RegistryHeuristic ==
    DockerParsed =>
        LET d    == DockerValue
            src  == DockerSource
            seg  == Before(src, FirstIndex(src, "/"))
            name(p) == IF IndicesOf(p, "@") # {}
                       THEN Before(p, FirstIndex(p, "@"))
                       ELSE IF IndicesOf(p, ":") # {}
                       THEN Before(p, FirstIndex(p, ":"))
                       ELSE p
        IN  IF /\ IndicesOf(src, "/") # {}
               /\ \/ seg = Localhost
                  \/ IndicesOf(seg, ".") # {}
                  \/ IndicesOf(seg, ":") # {}
            THEN /\ d.registry = Some(seg)
                 /\ d.image = name(After(src, FirstIndex(src, "/")))
            ELSE /\ d.registry = None
                 /\ d.image = name(src)

\* A registry was recognised by its port separator alone
C8_Witness ==
    /\ DockerParsed
    /\ IsSome(DockerValue.registry)
    /\ Contains(Unwrap(DockerValue.registry), ":")
    /\ ~Contains(Unwrap(DockerValue.registry), ".")

\* C9: an image portion without `@` is split on its first `:` into image
\* and tag; an empty text after that `:` gives no tag, no `:` gives no tag,
\* and a tag that is present is never empty.
C9_TagSplit ==
    DockerParsed =>
        LET d   == DockerValue
            img == ImagePortion
        IN  /\ IndicesOf(img, "@") = {} =>
                   IF IndicesOf(img, ":") # {}
                   THEN LET rest == After(img, FirstIndex(img, ":"))
                        IN  /\ d.image = Before(img, FirstIndex(img, ":"))
                            /\ d.tag = IF rest = <<>> THEN None ELSE Some(rest)
                   ELSE /\ d.image = img
                        /\ d.tag = None
            /\ IsSome(d.tag) => Unwrap(d.tag) # <<>>

\* An image portion ending in a bare `:` was parsed to a reference without
\* tag
C9_Witness ==
    /\ DockerParsed
    /\ IndicesOf(ImagePortion, "@") = {}
    /\ IndicesOf(ImagePortion, ":") = {Len(ImagePortion)}
    /\ IsNone(DockerValue.tag)

---------------------------------------------------------------------------
(* Properties of reusable_step_uses *)

\* The input is a string that Uses::from_str reads as a repository
\* reference
IsRepositoryReference ==
    /\ deIsStr
    /\ ~HasLocalPrefix(input)
    /\ ~HasDockerPrefix(input)
    /\ IndicesOf(UnreffedPath(input), "/") # {}

\* C10: in the reusable-workflow context a repository reference is accepted
\* iff its ref is present, that is iff the input holds an `@`; a rejected
\* one fails with the must-have-ref error, an accepted one is returned as
\* the Repository kind.
C10_ReusableRepositoryPinned ==
    (op = "reusable_step_uses" /\ IsRepositoryReference) =>
        /\ result.ok <=> IndicesOf(input, "@") # {}
        /\ result.ok =>
               /\ result.val.kind = "Repository"
               /\ IsSome(result.val.uses.git_ref)
        /\ ~result.ok => result.err = Custom(RepoNeedsRef)

\* An unpinned repository reference was rejected in the reusable context
C10_Witness ==
    /\ op = "reusable_step_uses"
    /\ IsRepositoryReference
    /\ IndicesOf(input, "@") = {}
    /\ ~result.ok
    /\ result.err = Custom(RepoNeedsRef)

\* C11: in the reusable-workflow context a local reference is accepted iff
\* its path holds no `@` at any position; a rejected one fails with the
\* cannot-specify-ref error, an accepted one is returned unchanged.  The
\* plain step decoder accepts every local reference, `@` or not.
C11_ReusableLocalUnpinned ==
    (deIsStr /\ HasLocalPrefix(input)) =>
        /\ op = "reusable_step_uses" =>
               /\ result.ok <=> IndicesOf(input, "@") = {}
               /\ result.ok =>
                      /\ result.val.kind = "Local"
                      /\ result.val.uses.path = input
               /\ ~result.ok => result.err = Custom(LocalHasRef)
        /\ op = "step_uses" =>
               /\ result.ok
               /\ result.val.kind = "Local"
               /\ result.val.uses.path = input

\* A local reference was rejected for an `@` that stands before its last `/`
C11_Witness ==
    /\ op = "reusable_step_uses"
    /\ deIsStr
    /\ HasLocalPrefix(input)
    /\ IndicesOf(input, "@") # {}
    /\ LastIndex(input, "@") < LastIndex(input, "/")
    /\ ~result.ok
    /\ result.err = Custom(LocalHasRef)

\* C12: in the reusable-workflow context every input starting with
\* `docker://` is rejected with the docker-invalid error, whatever follows
\* the prefix.
C12_ReusableDockerRejected ==
    (op = "reusable_step_uses" /\ deIsStr /\ HasDockerPrefix(input)) =>
        /\ ~result.ok
        /\ result.err = Custom(DockerInvalid)

\* A Docker reference with a registry and a tag was rejected
C12_Witness ==
    /\ op = "reusable_step_uses"
    /\ deIsStr
    /\ HasDockerPrefix(input)
    /\ LET d == DockerUses_from_str(After(input, Len(DockerPrefix))).val
       IN  IsSome(d.registry) /\ IsSome(d.tag)
    /\ ~result.ok

---------------------------------------------------------------------------
(* ExplicitExpr and LoE<T> (src/src/common/expr.rs) *)

MaxBody == 3

ExprAlphabet == {" ", "a", "$", "{", "}"}

\* The characters that char::is_whitespace accepts, by which str::trim
\* trims: the space, U+0009 to U+000D, and the characters above U+007F
\* with the Unicode property White_Space; U+000B and the latter are
\* written as their code points
WhiteSpace ==
    {" ", "\t", "\n", "U+000B", "\f", "\r",
     "U+0085", "U+00A0", "U+1680", "U+2000", "U+2001", "U+2002", "U+2003",
     "U+2004", "U+2005", "U+2006", "U+2007", "U+2008", "U+2009", "U+200A",
     "U+2028", "U+2029", "U+202F", "U+205F", "U+3000"}

CurlyOpen == <<"$", "{", "{">>

CurlyClose == <<"}", "}">>

InvariantViolated ==
    <<"i", "n", "v", "a", "r", "i", "a", "n", "t", " ", "v", "i", "o", "l",
      "a", "t", "e", "d", ":", " ", "E", "x", "p", "l", "i", "c", "i", "t",
      "E", "x", "p", "r", " ", "m", "u", "s", "t", " ", "b", "e", " ", "a",
      "n", " ", "e", "x", "p", "r", "e", "s", "s", "i", "o", "n">>

InvalidExpression ==
    <<"i", "n", "v", "a", "l", "i", "d", " ", "e", "x", "p", "r", "e", "s",
      "s", "i", "o", "n", ":", " ", "e", "x", "p", "e", "c", "t", "e", "d",
      " ", "'", "$", "{", "{", "'", " ", "a", "n", "d", " ", "'", "}", "}",
      "'", " ", "d", "e", "l", "i", "m", "i", "t", "e", "r", "s">>

\* The error of a derived untagged enum none of whose variants decoded
NoVariantMatched ==
    <<"d", "a", "t", "a", " ", "d", "i", "d", " ", "n", "o", "t", " ", "m",
      "a", "t", "c", "h", " ", "a", "n", "y", " ", "v", "a", "r", "i", "a",
      "n", "t", " ", "o", "f", " ", "u", "n", "t", "a", "g", "g", "e", "d",
      " ", "e", "n", "u", "m", " ", "L", "o", "E">>

\* str::ends_with(&str)
EndsWith(s, p) ==
    Len(s) >= Len(p) /\ SubSeq(s, Len(s) - Len(p) + 1, Len(s)) = p

\* str::strip_suffix(&str)
StripSuffix(s, p) ==
    IF EndsWith(s, p) THEN Some(SubSeq(s, 1, Len(s) - Len(p))) ELSE None

\* str::trim_start
RECURSIVE TrimStart(_)
TrimStart(s) ==
    IF s # <<>> /\ s[1] \in WhiteSpace THEN TrimStart(Tail(s)) ELSE s

\* str::trim_end
RECURSIVE TrimEnd(_)
TrimEnd(s) ==
    IF s # <<>> /\ s[Len(s)] \in WhiteSpace
    THEN TrimEnd(SubSeq(s, 1, Len(s) - 1))
    ELSE s

\* str::trim
Trim(s) == TrimEnd(TrimStart(s))

\* The tuple struct ExplicitExpr(String)
ExplicitExpr(s) == [raw |-> s]

\* Mutant of from_curly: the trimmed text is what gets stored
from_curly_store_trimmed(text) ==
    LET trimmed == Trim(text)
    IN  IF ~StartsWith(trimmed, CurlyOpen) \/ ~EndsWith(trimmed, CurlyClose)
        THEN None
        ELSE Some(ExplicitExpr(trimmed))

\* Mutant of from_curly: rejects only a text that lacks both delimiters
from_curly_either(text) ==
    LET trimmed == Trim(text)
    IN  IF ~StartsWith(trimmed, CurlyOpen) /\ ~EndsWith(trimmed, CurlyClose)
        THEN None
        ELSE Some(ExplicitExpr(text))

\* ExplicitExpr::from_curly
from_curly(text) ==
    LET trimmed == Trim(text)
    IN  IF ~StartsWith(trimmed, CurlyOpen) \/ ~EndsWith(trimmed, CurlyClose)
        THEN None
        ELSE Some(ExplicitExpr(text))

\* ExplicitExpr::as_raw
as_raw(e) == e.raw

\* Mutant of as_curly: returns the body without its delimiters
as_curly_body(e) ==
    LET p == StripPrefix(Trim(as_raw(e)), CurlyOpen)
        q == IF IsSome(p) THEN StripSuffix(Unwrap(p), CurlyClose) ELSE None
    IN  IF IsSome(q) THEN Trim(Unwrap(q)) ELSE Trim(as_raw(e))

\* ExplicitExpr::as_curly
as_curly(e) == Trim(as_raw(e))

\* The panic of Option::expect on None
Panic(msg) == [ok |-> FALSE, panic |-> msg]

\* Mutant of as_bare: the body is returned without `.map(|e| e.trim())`
as_bare_untrimmed(e) ==
    LET p == StripPrefix(as_curly(e), CurlyOpen)
        q == IF IsSome(p) THEN StripSuffix(Unwrap(p), CurlyClose) ELSE None
    IN  IF IsSome(q) THEN Ok(Unwrap(q)) ELSE Panic(InvariantViolated)

\* ExplicitExpr::as_bare
as_bare(e) ==
    LET p == StripPrefix(as_curly(e), CurlyOpen)
        q == IF IsSome(p) THEN StripSuffix(Unwrap(p), CurlyClose) ELSE None
        r == IF IsSome(q) THEN Some(Trim(Unwrap(q))) ELSE None
    IN  IF IsSome(r) THEN Ok(Unwrap(r)) ELSE Panic(InvariantViolated)

\* Mutant of String_deserialize: the decoded text is trimmed
String_deserialize_trim(v) ==
    IF v.kind = "str" THEN Ok(Trim(v.s)) ELSE Err(InvalidType)

\* String::deserialize
String_deserialize(v) ==
    IF v.kind = "str" THEN Ok(v.s) ELSE Err(InvalidType)

\* bool::deserialize
bool_deserialize(v) ==
    IF v.kind = "bool" THEN Ok(v.b) ELSE Err(InvalidType)

\* A variant of the decoder of ExplicitExpr that keeps a string without
\* delimiters instead of failing
ExplicitExpr_deserialize_fallback(v) ==
    LET raw == String_deserialize(v)
    IN  IF ~raw.ok THEN raw ELSE Ok(ExplicitExpr(raw.val))

\* impl Deserialize for ExplicitExpr
ExplicitExpr_deserialize(v) ==
    LET raw == String_deserialize(v)
    IN  IF ~raw.ok THEN raw
        ELSE LET e == from_curly(raw.val)
             IN  IF IsNone(e)
                 THEN Err(Custom(InvalidExpression))
                 ELSE Ok(Unwrap(e))

\* T::deserialize for the literal types of the model
Literal_deserialize(T, v) ==
    IF T = "String" THEN String_deserialize(v) ELSE bool_deserialize(v)

\* T::default() for the types T of the LoE<T> fields that have a default:
\* false, the empty string, the empty IndexMap
T_default(T) == IF T = "bool" THEN FALSE ELSE <<>>

\* A variant of the default of LoE<T> that is an expression
LoE_default_expr(T) == [variant |-> "Expr", val |-> ExplicitExpr(<<>>)]

\* impl Default for LoE<T>
LoE_default(T) == [variant |-> "Literal", val |-> T_default(T)]

\* Mutant of LoE_deserialize: the Literal variant is tried first
LoE_deserialize_literal_first(T, v) ==
    LET l == Literal_deserialize(T, v)
    IN  IF l.ok THEN Ok([variant |-> "Literal", val |-> l.val])
        ELSE LET e == ExplicitExpr_deserialize(v)
             IN  IF e.ok THEN Ok([variant |-> "Expr", val |-> e.val])
                 ELSE Err(Custom(NoVariantMatched))

\* The derived, untagged Deserialize of LoE<T>: the variants in the order
\* of their declaration, the first that decodes wins
LoE_deserialize(T, v) ==
    LET e == ExplicitExpr_deserialize(v)
    IN  IF e.ok THEN Ok([variant |-> "Expr", val |-> e.val])
        ELSE LET l == Literal_deserialize(T, v)
             IN  IF l.ok THEN Ok([variant |-> "Literal", val |-> l.val])
                 ELSE Err(Custom(NoVariantMatched))

\* A variant of the decoder of If that rejects a curly-delimited string
If_deserialize_bare_only(v) ==
    IF bool_deserialize(v).ok
    THEN Ok([variant |-> "Bool", val |-> bool_deserialize(v).val])
    ELSE IF String_deserialize(v).ok /\ IsNone(from_curly(v.s))
    THEN Ok([variant |-> "Expr", val |-> String_deserialize(v).val])
    ELSE Err(Custom(SubSeq(NoVariantMatched, 1, Len(NoVariantMatched) - 3)
                    \o <<"I", "f">>))

\* #[derive(Deserialize)] #[serde(untagged)] enum If of common.rs: Bool,
\* then Expr(String), which takes any string
If_deserialize(v) ==
    IF bool_deserialize(v).ok
    THEN Ok([variant |-> "Bool", val |-> bool_deserialize(v).val])
    ELSE IF String_deserialize(v).ok
    THEN Ok([variant |-> "Expr", val |-> String_deserialize(v).val])
    ELSE Err(Custom(SubSeq(NoVariantMatched, 1, Len(NoVariantMatched) - 3)
                    \o <<"I", "f">>))

---------------------------------------------------------------------------
(* The state machine of expr.rs: one YAML value, decoded by any entry      *)
(* point; the views of an expression are taken of the one built last.      *)

Bodies == UNION {[1..n -> ExprAlphabet] : n \in 0..MaxBody}

LeftPads == {<<>>, <<" ", "\t">>, <<"\r", "U+000B">>}

RightPads == {<<>>, <<"\n", " ">>, <<"\f", "U+00A0">>}

Opens == {<<>>, CurlyOpen, <<"$", "{">>}

Closes == {<<>>, CurlyClose, <<"}">>}

ExprInputs ==
    {l \o o \o b \o c \o r :
        l \in LeftPads, o \in Opens, b \in Bodies, c \in Closes,
        r \in RightPads}

ExprValues == {Str(s) : s \in ExprInputs} \cup {Bool(TRUE), Bool(FALSE), Null}

InitExpr ==
    /\ de \in ExprValues
    /\ expr = None
    /\ op = "none"
    /\ result = Err(<<>>)
    /\ deIsStr = FALSE
    /\ input = <<>>
    /\ events = None

FromCurly ==
    /\ de.kind = "str"
    /\ op' = "ExplicitExpr::from_curly"
    /\ result' = from_curly(de.s)
    /\ expr' = result'
    /\ UNCHANGED <<deIsStr, input, de, events>>

DeserializeExpr ==
    /\ op' = "ExplicitExpr::deserialize"
    /\ result' = ExplicitExpr_deserialize(de)
    /\ expr' = IF result'.ok THEN Some(result'.val) ELSE None
    /\ UNCHANGED <<deIsStr, input, de, events>>

\* The name of the entry point LoE<T>::deserialize
LoEOp(T) ==
    IF T = "String" THEN "LoE<String>::deserialize"
    ELSE "LoE<bool>::deserialize"

DeserializeLoE ==
    /\ \E T \in {"String", "bool"} :
           /\ op' = LoEOp(T)
           /\ result' = LoE_deserialize(T, de)
    /\ expr' = IF result'.ok /\ result'.val.variant = "Expr"
               THEN Some(result'.val.val)
               ELSE None
    /\ UNCHANGED <<deIsStr, input, de, events>>

\* The name of the entry point LoE<T>::default
LoEDefaultOp(T) ==
    IF T = "bool" THEN "LoE<bool>::default"
    ELSE IF T = "String" THEN "LoE<String>::default"
    ELSE "LoE<Env>::default"

\* A #[serde(default)] field of type LoE<T> whose key is absent
DefaultLoE ==
    /\ \E T \in {"bool", "String", "Env"} :
           /\ op' = LoEDefaultOp(T)
           /\ result' = Ok(LoE_default(T))
    /\ expr' = None
    /\ UNCHANGED <<deIsStr, input, de, events>>

\* An `if:` value decoded as If
DeserializeIf ==
    /\ op' = "If::deserialize"
    /\ result' = If_deserialize(de)
    /\ expr' = None
    /\ UNCHANGED <<deIsStr, input, de, events>>

AsRaw ==
    /\ IsSome(expr)
    /\ op' = "ExplicitExpr::as_raw"
    /\ result' = Ok(as_raw(Unwrap(expr)))
    /\ UNCHANGED <<deIsStr, input, de, expr, events>>

AsCurly ==
    /\ IsSome(expr)
    /\ op' = "ExplicitExpr::as_curly"
    /\ result' = Ok(as_curly(Unwrap(expr)))
    /\ UNCHANGED <<deIsStr, input, de, expr, events>>

AsBare ==
    /\ IsSome(expr)
    /\ op' = "ExplicitExpr::as_bare"
    /\ result' = as_bare(Unwrap(expr))
    /\ UNCHANGED <<deIsStr, input, de, expr, events>>

\* from_curly(e.as_curly()), for the expression e built last
FromCurlyOfCurly ==
    /\ IsSome(expr)
    /\ op' = "ExplicitExpr::from_curly(as_curly)"
    /\ result' = from_curly(as_curly(Unwrap(expr)))
    /\ UNCHANGED <<deIsStr, input, de, expr, events>>

NextExpr ==
    \/ FromCurly
    \/ DeserializeExpr
    \/ DeserializeLoE
    \/ DefaultLoE
    \/ DeserializeIf
    \/ AsRaw
    \/ AsCurly
    \/ AsBare
    \/ FromCurlyOfCurly

SpecExpr == InitExpr /\ [][NextExpr]_vars

---------------------------------------------------------------------------
(* Vocabulary of the properties of expr.rs, stated on the text itself *)

NonWhite(s) == {i \in 1..Len(s) : s[i] \notin WhiteSpace}

\* s without its leading and trailing whitespace
Trimmed(s) ==
    IF NonWhite(s) = {} THEN <<>>
    ELSE SubSeq(s,
                CHOOSE i \in NonWhite(s) : \A j \in NonWhite(s) : i <= j,
                CHOOSE i \in NonWhite(s) : \A j \in NonWhite(s) : j <= i)

\* The trimmed text starts with `${{` and ends with `}}`
IsCurlyText(s) ==
    LET c == Trimmed(s)
        n == Len(c)
    IN  /\ n >= 3 /\ c[1] = "$" /\ c[2] = "{" /\ c[3] = "{"
        /\ c[n - 1] = "}" /\ c[n] = "}"

IsCurlyValue(v) == v.kind = "str" /\ IsCurlyText(v.s)

LoEOps == {"LoE<String>::deserialize", "LoE<bool>::deserialize"}

---------------------------------------------------------------------------
(* Properties of ExplicitExpr and LoE<T> *)

\* C13: LoE<T> decoding prefers the expression: a string whose trimmed form
\* starts with `${{` and ends with `}}` decodes to the Expr variant holding
\* that string, for T = String as well; a Literal result is only produced
\* for a value that is no such string.
C13_ExprPriority ==
    op \in LoEOps =>
        /\ IsCurlyValue(de) =>
               /\ result.ok
               /\ result.val.variant = "Expr"
               /\ result.val.val = ExplicitExpr(de.s)
        /\ (result.ok /\ result.val.variant = "Literal") =>
               ~ExplicitExpr_deserialize(de).ok

\* LoE<String> decoded a curly string, which String could decode too
C13_Witness ==
    /\ op = "LoE<String>::deserialize"
    /\ IsCurlyValue(de)
    /\ String_deserialize(de).ok
    /\ result.ok
    /\ result.val.variant = "Expr"

\* C14: LoE<String> decodes every string: it yields Literal iff from_curly
\* rejects the string, and the Literal holds the string unchanged, outer
\* whitespace included.
C14_LoEStringTotal ==
    (op = "LoE<String>::deserialize" /\ de.kind = "str") =>
        /\ result.ok
        /\ result.val.variant = "Literal" <=> IsNone(from_curly(de.s))
        /\ result.val.variant = "Literal" <=> ~IsCurlyText(de.s)
        /\ result.val.variant = "Literal" => result.val.val = de.s

\* An unterminated `${{` with trailing whitespace was kept as a Literal
C14_Witness ==
    /\ op = "LoE<String>::deserialize"
    /\ de.kind = "str"
    /\ StartsWith(de.s, CurlyOpen)
    /\ ~Contains(de.s, "}")
    /\ de.s # Trimmed(de.s)
    /\ result.ok
    /\ result.val.variant = "Literal"

\* C15: from_curly returns Some iff the text, trimmed of leading and
\* trailing whitespace, starts with `${{` and ends with `}}`; the value
\* stores the original text, and as_raw returns it.
C15_FromCurly ==
    /\ op = "ExplicitExpr::from_curly" =>
           /\ IsSome(result) <=> IsCurlyText(de.s)
           /\ IsSome(result) => Unwrap(result).raw = de.s
    /\ op = "ExplicitExpr::as_raw" => result = Ok(de.s)

\* from_curly accepted a text that has outer whitespace
C15_Witness ==
    /\ op = "ExplicitExpr::from_curly"
    /\ IsSome(result)
    /\ de.s # Trimmed(de.s)

\* C16: as_curly is the text without its leading and trailing whitespace;
\* as_bare is as_curly without its first three and last two characters,
\* trimmed at both ends, whitespace inside the body kept as it is.
C16_Views ==
    /\ op = "ExplicitExpr::as_curly" => result = Ok(Trimmed(de.s))
    /\ op = "ExplicitExpr::as_bare" =>
           LET c == Trimmed(de.s)
           IN  result = Ok(Trimmed(SubSeq(c, 4, Len(c) - 2)))

\* as_bare of a padded text returned a non-empty body that is shorter than
\* the text between the delimiters: the blanks around the body were dropped
C16_Witness ==
    /\ op = "ExplicitExpr::as_bare"
    /\ de.s # Trimmed(de.s)
    /\ result.ok
    /\ result.val # <<>>
    /\ Len(result.val) < Len(Trimmed(de.s)) - 5

\* C17: as_bare never panics: every ExplicitExpr that was constructed, by
\* from_curly or by deserialization, is curly-delimited.
C17_AsBareNeverPanics ==
    /\ op = "ExplicitExpr::as_bare" => result.ok
    /\ IsSome(expr) => IsCurlyText(Unwrap(expr).raw)

\* as_bare ran on the minimal expression `${{}}`
C17_Witness ==
    /\ op = "ExplicitExpr::as_bare"
    /\ Trimmed(de.s) = CurlyOpen \o CurlyClose
    /\ result = Ok(<<>>)

\* C18: for an expression e accepted by from_curly, from_curly(e.as_curly())
\* succeeds and has the curly and bare forms of e; it is e itself when e
\* has no outer whitespace.
C18_CurlyRoundTrip ==
    op = "ExplicitExpr::from_curly(as_curly)" =>
        /\ IsSome(result)
        /\ LET e == Unwrap(expr)
               f == Unwrap(result)
           IN  /\ as_curly(f) = as_curly(e)
               /\ as_bare(f) = as_bare(e)
               /\ as_raw(f) = Trimmed(as_raw(e))
               /\ as_raw(e) = Trimmed(as_raw(e)) => f = e

\* The round trip ran on an expression with outer whitespace
C18_Witness ==
    /\ op = "ExplicitExpr::from_curly(as_curly)"
    /\ IsSome(result)
    /\ Unwrap(result) # Unwrap(expr)

---------------------------------------------------------------------------
(* Workflow event triggers: workflow/event.rs                               *)
(*                                                                          *)
(* A YAML mapping is the sequence of its entries in document order, each a  *)
(* record [key, value], as an untagged enum buffers it: a key may be listed *)
(* more than once.                                                          *)

\* Largest number of keys in the `on:` mappings that are decoded
MaxKeys == 2

List(q) == [kind |-> "seq", items |-> q]

Entry(k, v) == [key |-> k, value |-> v]

\* serde::de::Error::missing_field(field)
MissingField(field) == [missing_field |-> field]

\* The fields of struct Events, in declaration order
EventsFields ==
    << "branch_protection_rule", "check_run", "check_suite", "discussion",
       "discussion_comment", "issue_comment", "issues", "label",
       "merge_group", "milestone", "project", "project_card",
       "project_column", "pull_request", "pull_request_comment",
       "pull_request_review", "pull_request_review_comment",
       "pull_request_target", "push", "registry_package", "release",
       "repository_dispatch", "schedule", "watch", "workflow_call",
       "workflow_dispatch", "workflow_run" >>

\* The argument list of count_if_present! in Events::count, in its order
CountedFields ==
    << "branch_protection_rule", "check_run", "check_suite", "discussion",
       "discussion_comment", "issue_comment", "issues", "label",
       "merge_group", "milestone", "project", "project_card",
       "project_column", "pull_request", "pull_request_comment",
       "pull_request_review", "pull_request_review_comment",
       "pull_request_target", "push", "registry_package", "release",
       "repository_dispatch", "schedule", "watch", "workflow_call",
       "workflow_dispatch", "workflow_run" >>

EventsFieldSet == {EventsFields[i] : i \in 1..Len(EventsFields)}

\* The T of the OptionalBody<T> of each field
BodyType(field) ==
    CASE field \in {"pull_request", "pull_request_target"} -> "PullRequest"
      [] field = "push" -> "Push"
      [] field = "schedule" -> "Vec<Cron>"
      [] field = "workflow_call" -> "WorkflowCall"
      [] field = "workflow_dispatch" -> "WorkflowDispatch"
      [] field = "workflow_run" -> "WorkflowRun"
      [] OTHER -> "GenericEvent"

\* serde::de::Error::duplicate_field(field)
DuplicateField(field) == [duplicate_field |-> field]

\* serde::de::Error::invalid_length(len, expected)
InvalidLength(len) == [invalid_length |-> len]

\* A YAML number, which decodes as an f64
Num(n) == [kind |-> "num", n |-> n]

\* The error of the derived untagged enum `name` none of whose variants
\* decoded
NoVariantOf(name) ==
    SubSeq(NoVariantMatched, 1, Len(NoVariantMatched) - 3) \o name

\* Vec<String>: a sequence whose items are all strings
VecString_deserialize(v) ==
    IF v.kind = "seq" /\ \A i \in 1..Len(v.items) : v.items[i].kind = "str"
    THEN Ok([i \in 1..Len(v.items) |-> v.items[i].s])
    ELSE Err(InvalidType)

\* A variant of scalar_or_vector that treats a vector as a scalar: it keeps
\* the first element only
scalar_or_vector_first_only(v) ==
    IF String_deserialize(v).ok
    THEN Ok(<<String_deserialize(v).val>>)
    ELSE IF VecString_deserialize(v).ok
    THEN Ok(IF VecString_deserialize(v).val = <<>> THEN <<>>
            ELSE <<VecString_deserialize(v).val[1]>>)
    ELSE Err(Custom(SubSeq(NoVariantMatched, 1, Len(NoVariantMatched) - 3)
                    \o <<"S", "o", "V">>))

\* scalar_or_vector::<String>: SoV::One(s) becomes vec![s], SoV::Many(vs)
\* becomes vs
scalar_or_vector(v) ==
    IF String_deserialize(v).ok
    THEN Ok(<<String_deserialize(v).val>>)
    ELSE IF VecString_deserialize(v).ok
    THEN VecString_deserialize(v)
    ELSE Err(Custom(SubSeq(NoVariantMatched, 1, Len(NoVariantMatched) - 3)
                    \o <<"S", "o", "V">>))

\* null_to_default::<String>: null is the empty string
null_to_default(v) ==
    IF v.kind = "null" THEN Ok(<<>>) ELSE String_deserialize(v)

\* #[derive(Deserialize)] #[serde(untagged)] enum EnvValue: String (through
\* null_to_default), then Number, then Boolean
EnvValue_deserialize(v) ==
    IF null_to_default(v).ok
    THEN Ok([variant |-> "String", val |-> null_to_default(v).val])
    ELSE IF v.kind = "num"
    THEN Ok([variant |-> "Number", val |-> v.n])
    ELSE IF bool_deserialize(v).ok
    THEN Ok([variant |-> "Boolean", val |-> bool_deserialize(v).val])
    ELSE Err(Custom(NoVariantOf(<<"E", "n", "v", "V", "a", "l", "u", "e">>)))

\* enum OptionalBody<T>
Default == [tag |-> "Default"]

Missing == [tag |-> "Missing"]

Body(v) == [tag |-> "Body", val |-> v]

\* A variant of From<Option<T>> that folds None into Missing
OptionalBody_from_none_missing(value) ==
    IF IsSome(value) THEN Body(Unwrap(value)) ELSE Missing

\* impl From<Option<T>> for OptionalBody<T>
OptionalBody_from(value) ==
    IF IsSome(value) THEN Body(Unwrap(value)) ELSE Default

\* The type of a field: String, bool, EnvValue, scalar_or_vector (a
\* Vec<String> with deserialize_with = "scalar_or_vector"), Vec<t>,
\* Option<t>, IndexMap<String, t>, OptionalBody<t>, or the struct named t
Ty(c, t) == [c |-> c, t |-> t]

\* The type of the body named T by BodyType
BodyTypeTerm(T) ==
    IF T = "Vec<Cron>" THEN Ty("Vec", Ty("struct", "Cron"))
    ELSE Ty("struct", T)

\* A field of a struct: its key, its type, and whether it (or its struct)
\* is marked #[serde(default)]
Field(name, type, default) ==
    [name |-> name, type |-> type, default |-> default]

\* A #[serde(flatten)] Option<enum> field and the keys of the enum's
\* variants
Flatten(name, keys) == [name |-> name, keys |-> keys]

\* The fields of the structs of event.rs that are not flattened, in
\* declaration order
StructFields(name) ==
    CASE name = "Events" ->
             [i \in 1..Len(EventsFields) |->
                  Field(EventsFields[i],
                        Ty("OptionalBody",
                           BodyTypeTerm(BodyType(EventsFields[i]))),
                        TRUE)]
      [] name = "GenericEvent" ->
             <<Field("types", Ty("scalar_or_vector", <<>>), TRUE)>>
      [] name = "PullRequest" ->
             <<Field("types", Ty("Vec", Ty("String", <<>>)), TRUE)>>
      [] name = "Push" -> <<>>
      [] name = "Cron" -> <<Field("cron", Ty("String", <<>>), FALSE)>>
      [] name = "WorkflowCall" ->
             <<Field("inputs",
                     Ty("IndexMap", Ty("struct", "WorkflowCallInput")), TRUE),
               Field("outputs",
                     Ty("IndexMap", Ty("struct", "WorkflowCallOutput")), TRUE),
               Field("secrets",
                     Ty("IndexMap",
                        Ty("Option", Ty("struct", "WorkflowCallSecret"))),
                     TRUE)>>
      [] name = "WorkflowCallInput" ->
             <<Field("description", Ty("Option", Ty("String", <<>>)), FALSE),
               Field("required", Ty("bool", <<>>), TRUE),
               Field("type", Ty("String", <<>>), FALSE)>>
      [] name = "WorkflowCallOutput" ->
             <<Field("description", Ty("Option", Ty("String", <<>>)), FALSE),
               Field("value", Ty("String", <<>>), FALSE)>>
      [] name = "WorkflowCallSecret" ->
             <<Field("description", Ty("Option", Ty("String", <<>>)), FALSE),
               Field("required", Ty("bool", <<>>), TRUE)>>
      [] name = "WorkflowDispatch" ->
             <<Field("inputs",
                     Ty("IndexMap", Ty("struct", "WorkflowDispatchInput")),
                     TRUE)>>
      [] name = "WorkflowDispatchInput" ->
             <<Field("description", Ty("Option", Ty("String", <<>>)), FALSE),
               Field("required", Ty("bool", <<>>), TRUE),
               Field("type", Ty("Option", Ty("String", <<>>)), FALSE),
               Field("options", Ty("Vec", Ty("EnvValue", <<>>)), TRUE)>>
      [] name = "WorkflowRun" ->
             <<Field("workflows", Ty("Vec", Ty("String", <<>>)), FALSE),
               Field("types", Ty("Vec", Ty("String", <<>>)), TRUE)>>

\* The #[serde(flatten)] fields of the structs of event.rs, in declaration
\* order
StructFlattens(name) ==
    CASE name = "PullRequest" ->
             <<Flatten("branch_filters", {"branches", "branches-ignore"}),
               Flatten("path_filters", {"paths", "paths-ignore"})>>
      [] name = "Push" ->
             <<Flatten("branch_filters", {"branches", "branches-ignore"}),
               Flatten("path_filters", {"paths", "paths-ignore"}),
               Flatten("tag_filters", {"tags", "tags-ignore"})>>
      [] name = "WorkflowRun" ->
             <<Flatten("branch_filters", {"branches", "branches-ignore"})>>
      [] OTHER -> <<>>

\* A #[serde(flatten)] Option<enum> field: Some(variant) when one of the
\* enum's keys is among the entries and decodes, None otherwise
FlattenFilters(entries, keys) ==
    LET hit == {i \in 1..Len(entries) : entries[i].key \in keys}
    IN  IF hit = {} THEN None
        ELSE LET i == CHOOSE j \in hit : \A l \in hit : j <= l
                 d == VecString_deserialize(entries[i].value)
             IN  IF d.ok THEN Some([variant |-> entries[i].key, val |-> d.val])
                 ELSE None

NamesOf(fields) == {fields[i].name : i \in 1..Len(fields)}

FieldNamed(fields, name) ==
    fields[CHOOSE i \in 1..Len(fields) : fields[i].name = name]

\* Default::default() of a field's type
DefaultOf(T) ==
    CASE T.c = "bool" -> FALSE
      [] T.c = "Option" -> None
      [] T.c = "OptionalBody" -> Missing
      [] OTHER -> <<>>

\* The derived visit_map on a field whose key no entry holds: its default
\* when it has one, None for an Option, the error missing_field otherwise
missing_field(field) ==
    IF field.default THEN Ok(DefaultOf(field.type))
    ELSE IF field.type.c = "Option" THEN Ok(None)
    ELSE Err(MissingField(field.name))

\* The derived visit_seq on a field beyond the last item: its default when
\* it has one, the error invalid_length otherwise
missing_element(field, index) ==
    IF field.default THEN Ok(DefaultOf(field.type))
    ELSE Err(InvalidLength(index))

\* IndexMap::insert of every entry in turn: a key listed again keeps its
\* place and takes the later value
IndexMap_collect(entries, vals) ==
    LET firsts == {i \in 1..Len(entries) :
                       \A j \in 1..(i - 1) : entries[j].key # entries[i].key}
        last(k) == CHOOSE i \in 1..Len(entries) :
                       /\ entries[i].key = k
                       /\ \A j \in (i + 1)..Len(entries) : entries[j].key # k
        nth(n) == CHOOSE i \in firsts :
                      Cardinality({j \in firsts : j <= i}) = n
    IN  [n \in 1..Cardinality(firsts) |->
             Entry(entries[nth(n)].key, vals[last(entries[nth(n)].key)])]

RECURSIVE Deserialize(_, _)

\* The derived visit_map: the entries in document order; a key that names
\* no field is skipped, a field listed again is the error duplicate_field,
\* and the first entry that fails ends the decoding; then the fields
\* without an entry are filled in declaration order and the flattened
\* fields are decoded from the entries
Struct_visit_map(fields, flattens, entries) ==
    LET names == NamesOf(fields)
        known == {i \in 1..Len(entries) : entries[i].key \in names}
        d == [i \in known |->
                  IF \E j \in 1..(i - 1) : entries[j].key = entries[i].key
                  THEN Err(DuplicateField(entries[i].key))
                  ELSE Deserialize(FieldNamed(fields, entries[i].key).type,
                                   entries[i].value)]
        bad == {i \in known : ~d[i].ok}
        seen == {entries[i].key : i \in known}
        absent == {i \in 1..Len(fields) :
                       /\ fields[i].name \notin seen
                       /\ ~missing_field(fields[i]).ok}
    IN  IF bad # {} THEN d[CHOOSE i \in bad : \A j \in bad : i <= j]
        ELSE IF absent # {}
        THEN missing_field(
                 fields[CHOOSE i \in absent : \A j \in absent : i <= j])
        ELSE Ok([n \in names \cup NamesOf(flattens) |->
                     IF n \in seen
                     THEN d[CHOOSE i \in known : entries[i].key = n].val
                     ELSE IF n \in names
                     THEN missing_field(FieldNamed(fields, n)).val
                     ELSE FlattenFilters(entries,
                                         FieldNamed(flattens, n).keys)])

\* The derived visit_seq: the fields by position in declaration order, and
\* no item left over
Struct_visit_seq(fields, items) ==
    LET d == [i \in 1..Len(fields) |->
                  IF i <= Len(items)
                  THEN Deserialize(fields[i].type, items[i])
                  ELSE missing_element(fields[i], i - 1)]
        bad == {i \in 1..Len(fields) : ~d[i].ok}
    IN  IF bad # {} THEN d[CHOOSE i \in bad : \A j \in bad : i <= j]
        ELSE IF Len(items) > Len(fields) THEN Err(InvalidLength(Len(items)))
        ELSE Ok([n \in NamesOf(fields) |->
                     d[CHOOSE i \in 1..Len(fields) : fields[i].name = n].val])

\* T::deserialize for the type T of a field, on a value buffered by an
\* untagged enum
Deserialize(T, v) ==
    CASE T.c = "String" -> String_deserialize(v)
      [] T.c = "bool" -> bool_deserialize(v)
      [] T.c = "EnvValue" -> EnvValue_deserialize(v)
      [] T.c = "scalar_or_vector" -> scalar_or_vector(v)
      [] T.c = "Vec" ->
             IF v.kind # "seq" THEN Err(InvalidType)
             ELSE LET d == [i \in 1..Len(v.items) |->
                                Deserialize(T.t, v.items[i])]
                      bad == {i \in 1..Len(v.items) : ~d[i].ok}
                  IN  IF bad # {}
                      THEN d[CHOOSE i \in bad : \A j \in bad : i <= j]
                      ELSE Ok([i \in 1..Len(v.items) |-> d[i].val])
      [] T.c = "IndexMap" ->
             IF v.kind # "map" THEN Err(InvalidType)
             ELSE LET d == [i \in 1..Len(v.entries) |->
                                Deserialize(T.t, v.entries[i].value)]
                      bad == {i \in 1..Len(v.entries) : ~d[i].ok}
                  IN  IF bad # {}
                      THEN d[CHOOSE i \in bad : \A j \in bad : i <= j]
                      ELSE Ok(IndexMap_collect(
                                  v.entries,
                                  [i \in 1..Len(v.entries) |-> d[i].val]))
      [] T.c = "Option" ->
             IF v.kind = "null" THEN Ok(None)
             ELSE LET d == Deserialize(T.t, v)
                  IN  IF d.ok THEN Ok(Some(d.val)) ELSE d
      [] T.c = "OptionalBody" ->
             LET o == Deserialize(Ty("Option", T.t), v)
             IN  IF o.ok THEN Ok(OptionalBody_from(o.val)) ELSE o
      [] T.c = "struct" ->
             IF v.kind = "map"
             THEN Struct_visit_map(StructFields(T.t), StructFlattens(T.t),
                                   v.entries)
             ELSE IF v.kind = "seq" /\ StructFlattens(T.t) = <<>>
             THEN Struct_visit_seq(StructFields(T.t), v.items)
             ELSE Err(InvalidType)

GenericEvent_deserialize(v) == Deserialize(Ty("struct", "GenericEvent"), v)

PullRequest_deserialize(v) == Deserialize(Ty("struct", "PullRequest"), v)

Push_deserialize(v) == Deserialize(Ty("struct", "Push"), v)

Cron_deserialize(v) == Deserialize(Ty("struct", "Cron"), v)

VecCron_deserialize(v) == Deserialize(Ty("Vec", Ty("struct", "Cron")), v)

WorkflowCall_deserialize(v) == Deserialize(Ty("struct", "WorkflowCall"), v)

WorkflowDispatch_deserialize(v) ==
    Deserialize(Ty("struct", "WorkflowDispatch"), v)

WorkflowRun_deserialize(v) == Deserialize(Ty("struct", "WorkflowRun"), v)

\* T::deserialize for the body type T
Body_deserialize(T, v) ==
    CASE T = "GenericEvent" -> GenericEvent_deserialize(v)
      [] T = "PullRequest" -> PullRequest_deserialize(v)
      [] T = "Push" -> Push_deserialize(v)
      [] T = "Vec<Cron>" -> VecCron_deserialize(v)
      [] T = "WorkflowCall" -> WorkflowCall_deserialize(v)
      [] T = "WorkflowDispatch" -> WorkflowDispatch_deserialize(v)
      [] T = "WorkflowRun" -> WorkflowRun_deserialize(v)

\* Option::<T>::deserialize: null is None, anything else is Some(T)
Option_deserialize(T, v) == Deserialize(Ty("Option", BodyTypeTerm(T)), v)

\* impl Deserialize for OptionalBody<T>
OptionalBody_deserialize(T, v) ==
    Deserialize(Ty("OptionalBody", BodyTypeTerm(T)), v)

\* The derived visitor of Events on a mapping
Events_visit_map(entries) ==
    Struct_visit_map(StructFields("Events"), <<>>, entries)

\* The derived visitor of Events on a sequence
Events_visit_seq(items) == Struct_visit_seq(StructFields("Events"), items)

\* #[derive(Deserialize)] #[serde(default)] struct Events
Events_deserialize(v) == Deserialize(Ty("struct", "Events"), v)

\* The expansion of count_if_present!: one test per listed field
RECURSIVE count_if_present(_, _, _)
count_if_present(self, fields, count) ==
    IF fields = <<>> THEN count
    ELSE count_if_present(self, Tail(fields),
                          IF self[Head(fields)] # Missing
                          THEN count + 1 ELSE count)

\* A variant of Events::count whose list lacks its first field
Events_count_skip_first(self) ==
    count_if_present(self, Tail(CountedFields), 0)

\* Events::count
Events_count(self) == count_if_present(self, CountedFields, 0)

---------------------------------------------------------------------------
(* State machine of the event triggers: an `on:` mapping is decoded into    *)
(* Events, then its triggers are counted.                                   *)

\* A key that is no field of Events
UnknownKey == "create"

\* The keys of the mappings that are decoded, in the order in which a
\* mapping lists them
DocKeys ==
    SubSeq(EventsFields, 1, 3) \o <<UnknownKey>>
        \o SubSeq(EventsFields, 4, Len(EventsFields))

ListOfA == List(<<Str(<<"a">>)>>)

CronList == List(<<Map(<<Entry("cron", Str(<<"a">>))>>)>>)

\* The values found under any key: nothing, a value no body type accepts,
\* and a mapping with types, workflows and branches
BodyValues ==
    << Null, Bool(TRUE),
       Map(<<Entry("types", ListOfA), Entry("workflows", ListOfA),
             Entry("branches", ListOfA)>>) >>

\* The values found under one key only: under schedule the cron lists, one
\* of them with its field by position; under check_run the types by
\* position and the types listed twice; under workflow_call a body with an
\* input and a secret, and a body whose input lacks its type; under
\* workflow_dispatch a body whose input has options of every kind; under
\* push filters one of which does not decode; and the empty mapping under
\* a key of each body type that is a struct
KeyValues(key) ==
    CASE key = "schedule" -> <<CronList, List(<<ListOfA>>)>>
      [] key = "check_run" ->
             << List(<<ListOfA>>),
                Map(<<Entry("types", ListOfA), Entry("types", ListOfA)>>),
                Map(<<>>) >>
      [] key = "workflow_call" ->
             << Map(<<Entry("inputs",
                            Map(<<Entry("x",
                                        Map(<<Entry("type",
                                                    Str(<<"a">>))>>))>>)),
                      Entry("secrets", Map(<<Entry("s", Null)>>))>>),
                Map(<<Entry("inputs", Map(<<Entry("x", Map(<<>>))>>))>>),
                Map(<<>>) >>
      [] key = "workflow_dispatch" ->
             << Map(<<Entry("inputs",
                            Map(<<Entry("x",
                                        Map(<<Entry("options",
                                                    List(<<Str(<<"a">>),
                                                           Num(1),
                                                           Bool(TRUE),
                                                           Null>>))>>))>>))>>),
                Map(<<>>) >>
      [] key = "push" ->
             << Map(<<Entry("tags-ignore", ListOfA),
                      Entry("branches", Bool(TRUE))>>),
                Map(<<>>) >>
      [] key \in {"pull_request", "workflow_run"} -> <<Map(<<>>)>>
      [] OTHER -> <<>>

ValuesUnder(key) == BodyValues \o KeyValues(key)

\* The mapping that lists the keys DocKeys[ks[1]], DocKeys[ks[2]], ... with
\* the values of index vs[1], vs[2], ... among those found under each key
MappingOf(ks, vs) ==
    Map([i \in 1..Len(ks) |->
             Entry(DocKeys[ks[i]], ValuesUnder(DocKeys[ks[i]])[vs[i]])])

\* The sequences given in place of the mapping, which fill the fields by
\* position
SeqInputs == {List(<<>>), List(<<Null, Map(<<>>)>>), List(<<Bool(TRUE)>>)}

\* An `on:` mapping of at most MaxKeys keys, a key possibly listed twice,
\* or one of the sequences
InitEvents ==
    /\ \/ \E n \in 0..MaxKeys :
              \E ks \in [1..n -> 1..Len(DocKeys)] :
                  /\ \A i \in 1..(n - 1) : ks[i] <= ks[i + 1]
                  /\ \E vs \in [1..n -> 1..(Len(BodyValues) + 3)] :
                         /\ \A i \in 1..n :
                                vs[i] <= Len(ValuesUnder(DocKeys[ks[i]]))
                         /\ de = MappingOf(ks, vs)
       \/ de \in SeqInputs
    /\ events = None
    /\ expr = None
    /\ op = "none"
    /\ result = Err(<<>>)
    /\ deIsStr = FALSE
    /\ input = <<>>

\* Events::deserialize on the value
DeserializeEvents ==
    /\ op = "none"
    /\ result' = Events_deserialize(de)
    /\ events' = IF result'.ok THEN Some(result'.val) ELSE None
    /\ op' = "Events::deserialize"
    /\ UNCHANGED <<deIsStr, input, de, expr>>

\* Events::count on the decoded value
Count ==
    /\ IsSome(events)
    /\ result' = Ok(Events_count(Unwrap(events)))
    /\ op' = "Events::count"
    /\ UNCHANGED <<deIsStr, input, de, expr, events>>

NextEvents == DeserializeEvents \/ Count

SpecEvents == InitEvents /\ [][NextEvents]_vars

---------------------------------------------------------------------------
(* Vocabulary of the properties of Events *)

\* The entries of the mapping under decode that hold the key
EntriesOf(key) == {i \in 1..Len(de.entries) : de.entries[i].key = key}

\* The key is among the entries of the mapping under decode
Present(key) == EntriesOf(key) # {}

\* The mapping under decode lists the key more than once
Duplicated(key) == Cardinality(EntriesOf(key)) > 1

\* The value under a key that is present
ValueOf(key) == de.entries[CHOOSE i \in EntriesOf(key) : TRUE].value

\* The fields of Events whose key the mapping holds
KnownPresent == {f \in EventsFieldSet : Present(f)}

---------------------------------------------------------------------------
(* Properties of OptionalBody and Events *)

\* C19: when an `on:` mapping decodes, each field of Events is Missing iff
\* its key is absent, Default iff its key is present with a null value, and
\* Body(v) iff its key is present with content, v being the content decoded
\* as the body type of the field; decoding fails only on a known key that
\* is listed twice and on content that the body type of a present key
\* rejects.
C19_StateMatrix ==
    (op = "Events::deserialize" /\ de.kind = "map") =>
        /\ result.ok =>
               \A f \in EventsFieldSet :
                   LET got == result.val[f]
                   IN  /\ got = Missing <=> ~Present(f)
                       /\ got = Default <=>
                              (Present(f) /\ ValueOf(f) = Null)
                       /\ got.tag = "Body" <=>
                              (Present(f) /\ ValueOf(f) # Null)
                       /\ got.tag = "Body" =>
                              got = Body(Body_deserialize(BodyType(f),
                                                          ValueOf(f)).val)
        /\ ~result.ok <=>
               \/ \E f \in KnownPresent : Duplicated(f)
               \/ \E f \in KnownPresent :
                      /\ ValueOf(f) # Null
                      /\ ~Body_deserialize(BodyType(f), ValueOf(f)).ok

\* A mapping decoded to one Default field and one Body field that carries
\* decoded content, every other field Missing
C19_Witness ==
    /\ op = "Events::deserialize"
    /\ de.kind = "map"
    /\ result.ok
    /\ \E f, g \in EventsFieldSet :
           /\ result.val[f] = Default
           /\ result.val[g].tag = "Body"
           /\ BodyType(g) = "GenericEvent"
           /\ result.val[g].val.types # <<>>
           /\ \A h \in EventsFieldSet \ {f, g} : result.val[h] = Missing

\* C20: Events::count lists every field of Events exactly once and returns
\* the number of fields that are not Missing, which is the number of known
\* trigger keys in the mapping, whichever they are; it is 0 iff the mapping
\* holds no known trigger key.
C20_CountPresent ==
    /\ Len(CountedFields) = Len(EventsFields)
    /\ \A f \in EventsFieldSet :
           Cardinality({i \in 1..Len(CountedFields) : CountedFields[i] = f})
               = 1
    /\ op = "Events::count" =>
           /\ result.ok
           /\ result.val =
                  Cardinality({f \in EventsFieldSet :
                                   Unwrap(events)[f] # Missing})
           /\ de.kind = "map" =>
                  /\ result.val = Cardinality(KnownPresent)
                  /\ result.val = 0 <=> KnownPresent = {}

\* Two triggers were counted, one Default and one Body
C20_Witness ==
    /\ op = "Events::count"
    /\ de.kind = "map"
    /\ result = Ok(2)
    /\ \E f, g \in EventsFieldSet :
           /\ Unwrap(events)[f] = Default
           /\ Unwrap(events)[g].tag = "Body"

---------------------------------------------------------------------------
(* Decoding helpers of common.rs and the runner selector of job.rs          *)

\* Largest number of items in the YAML sequences that are decoded
MaxItems == 2

RunsOnInvalid ==
    <<"r", "u", "n", "s", "-", "o", "n", " ", "m", "u", "s", "t", " ", "p",
      "r", "o", "v", "i", "d", "e", " ", "e", "i", "t", "h", "e", "r", " ",
      Backtick, "g", "r", "o", "u", "p", Backtick, " ", "o", "r", " ", "o",
      "n", "e", " ", "o", "r", " ", "m", "o", "r", "e", " ", Backtick, "l",
      "a", "b", "e", "l", "s", Backtick>>

\* bool::to_string
bool_to_string(b) ==
    IF b THEN <<"t", "r", "u", "e">> ELSE <<"f", "a", "l", "s", "e">>

\* #[derive(Deserialize)] #[serde(untagged)] enum BoS: Bool, then String
BoS_deserialize(v) ==
    IF bool_deserialize(v).ok
    THEN Ok([variant |-> "Bool", val |-> bool_deserialize(v).val])
    ELSE IF String_deserialize(v).ok
    THEN Ok([variant |-> "String", val |-> String_deserialize(v).val])
    ELSE Err(Custom(NoVariantOf(<<"B", "o", "S">>)))

\* impl From<BoS> for String
String_from_BoS(value) ==
    IF value.variant = "Bool" THEN bool_to_string(value.val) ELSE value.val

\* A variant of bool_is_string that accepts strings only
bool_is_string_strict(v) == String_deserialize(v)

\* bool_is_string
bool_is_string(v) ==
    LET b == BoS_deserialize(v)
    IN  IF b.ok THEN Ok(String_from_BoS(b.val)) ELSE b

\* enum RunsOn
Target(labels) == [variant |-> "Target", val |-> labels]

Group(group, labels) ==
    [variant |-> "Group", group |-> group, labels |-> labels]

\* The fields of RunsOn::Group: `group` is optional, `labels` has a default
\* and is decoded by scalar_or_vector
Group_fields ==
    <<Field("group", Ty("Option", Ty("String", <<>>)), FALSE),
      Field("labels", Ty("scalar_or_vector", <<>>), TRUE)>>

\* The variant RunsOn::Group of the decoded fields
Group_from(g) == IF g.ok THEN Ok(Group(g.val.group, g.val.labels)) ELSE g

\* The derived visitor of RunsOn::Group, which reads a mapping only: the
\* struct variant of an untagged enum has no visit_seq
Group_visit_map(entries) ==
    Group_from(Struct_visit_map(Group_fields, <<>>, entries))

\* #[derive(Deserialize)] #[serde(untagged, remote = "Self")] enum RunsOn:
\* Target, then Group
RunsOn_derived(v) ==
    IF scalar_or_vector(v).ok THEN Ok(Target(scalar_or_vector(v).val))
    ELSE LET g == IF v.kind = "map" THEN Group_visit_map(v.entries)
                  ELSE Err(InvalidType)
         IN  IF g.ok THEN g
             ELSE Err(Custom(NoVariantOf(<<"R", "u", "n", "s", "O", "n">>)))

\* A variant of the decoder of RunsOn without the check of the Group
RunsOn_deserialize_unchecked(v) == RunsOn_derived(v)

\* impl Deserialize for RunsOn
RunsOn_deserialize(v) ==
    LET runs_on == RunsOn_derived(v)
    IN  IF ~runs_on.ok THEN runs_on
        ELSE IF /\ runs_on.val.variant = "Group"
                /\ IsNone(runs_on.val.group)
                /\ runs_on.val.labels = <<>>
        THEN Err(Custom(RunsOnInvalid))
        ELSE runs_on

---------------------------------------------------------------------------
(* State machine of the decoding helpers: a YAML value is given to          *)
(* scalar_or_vector, to bool_is_string or to the decoder of RunsOn.         *)

\* The strings among the decoded values
ScalarTexts ==
    {<<>>, <<"a">>, <<" ", "a">>, <<"t", "r", "u", "e">>,
     <<"f", "a", "l", "s", "e">>}

ScalarValues ==
    {Null, Bool(TRUE), Bool(FALSE)} \cup {Str(s) : s \in ScalarTexts}

\* The items of the decoded sequences: strings, and two values that are
\* no string
ItemValues == {Str(<<"a">>), Str(<<"b">>), Bool(TRUE), Null}

ListValues ==
    {List(q) : q \in UNION {[1..n -> ItemValues] : n \in 0..MaxItems}}

\* The values under `group` and under `labels` of a runs-on mapping
GroupValues == {Null, Str(<<"g">>), Bool(TRUE)}

LabelsValues == {Null, Str(<<"a">>)} \cup ListValues

\* The runs-on mappings: `group` and `labels`, each there or not, in
\* either order, and the mappings that list one of them twice
RunsOnMappings ==
    {Map(g \o l) :
        g \in {<<>>} \cup {<<Entry("group", v)>> : v \in GroupValues},
        l \in {<<>>} \cup {<<Entry("labels", v)>> : v \in LabelsValues}}
    \cup
    {Map(l \o g) :
        g \in {<<Entry("group", v)>> : v \in GroupValues},
        l \in {<<Entry("labels", v)>> : v \in LabelsValues}}
    \cup
    {Map(<<Entry(k, Str(<<"a">>)), Entry(k, Str(<<"a">>))>>) :
        k \in {"group", "labels"}}

DecodeValues == ScalarValues \cup ListValues \cup RunsOnMappings

InitDecode ==
    /\ de \in DecodeValues
    /\ events = None
    /\ expr = None
    /\ op = "none"
    /\ result = Err(<<>>)
    /\ deIsStr = FALSE
    /\ input = <<>>

ScalarOrVector ==
    /\ result' = scalar_or_vector(de)
    /\ op' = "scalar_or_vector"
    /\ UNCHANGED <<deIsStr, input, de, expr, events>>

BoolIsString ==
    /\ result' = bool_is_string(de)
    /\ op' = "bool_is_string"
    /\ UNCHANGED <<deIsStr, input, de, expr, events>>

DeserializeRunsOn ==
    /\ result' = RunsOn_deserialize(de)
    /\ op' = "RunsOn::deserialize"
    /\ UNCHANGED <<deIsStr, input, de, expr, events>>

NextDecode == ScalarOrVector \/ BoolIsString \/ DeserializeRunsOn

SpecDecode == InitDecode /\ [][NextDecode]_vars

---------------------------------------------------------------------------
(* Vocabulary of the properties of the decoding helpers *)

\* The value under decode is a sequence whose items are all strings
IsStringList(v) ==
    v.kind = "seq" /\ \A i \in 1..Len(v.items) : v.items[i].kind = "str"

---------------------------------------------------------------------------
(* Properties of scalar_or_vector and bool_is_string *)

\* C21: scalar_or_vector always yields a sequence: a scalar string x yields
\* the one-element sequence <<x>>; a sequence of strings yields its items,
\* as many and in the same order, the empty sequence included; nothing else
\* decodes.
C21_ScalarOrVector ==
    op = "scalar_or_vector" =>
        /\ de.kind = "str" => result = Ok(<<de.s>>)
        /\ IsStringList(de) =>
               /\ result.ok
               /\ Len(result.val) = Len(de.items)
               /\ \A i \in 1..Len(de.items) : result.val[i] = de.items[i].s
        /\ result.ok <=> (de.kind = "str" \/ IsStringList(de))

\* A sequence of two different strings was decoded
C21_Witness ==
    /\ op = "scalar_or_vector"
    /\ IsStringList(de)
    /\ Len(de.items) = 2
    /\ de.items[1] # de.items[2]
    /\ result.ok
    /\ Len(result.val) = 2

\* C22: bool_is_string accepts a boolean or any string and yields a string:
\* true yields `true`, false yields `false`, a string is returned unchanged,
\* so the boolean true and the string `true` decode to the same value;
\* nothing else decodes.
C22_BoolIsString ==
    op = "bool_is_string" =>
        /\ de = Bool(TRUE) => result = Ok(<<"t", "r", "u", "e">>)
        /\ de = Bool(FALSE) => result = Ok(<<"f", "a", "l", "s", "e">>)
        /\ de.kind = "str" => result = Ok(de.s)
        /\ result.ok <=> de.kind \in {"bool", "str"}
        /\ de = Bool(TRUE) => result = bool_is_string(Str(<<"t", "r", "u", "e">>))

\* The boolean true was decoded to the text `true`
C22_Witness ==
    /\ op = "bool_is_string"
    /\ de = Bool(TRUE)
    /\ result = Ok(<<"t", "r", "u", "e">>)

---------------------------------------------------------------------------
(* Vocabulary of the properties of RunsOn *)

\* The mapping under decode has no group: no `group` key, or a null one
NoGroup == ~Present("group") \/ ValueOf("group") = Null

\* The mapping under decode has a group: a `group` key with a string
HasGroup == Present("group") /\ ValueOf("group").kind = "str"

\* The labels of the mapping under decode can be read: there is no `labels`
\* key, or it holds a string or a sequence of strings
LabelsReadable ==
    \/ ~Present("labels")
    \/ ValueOf("labels").kind = "str"
    \/ IsStringList(ValueOf("labels"))

\* The labels of the mapping under decode, when they can be read
LabelsOf ==
    IF ~Present("labels") THEN <<>>
    ELSE IF ValueOf("labels").kind = "str" THEN <<ValueOf("labels").s>>
    ELSE [i \in 1..Len(ValueOf("labels").items) |->
              ValueOf("labels").items[i].s]

---------------------------------------------------------------------------
(* Properties of RunsOn *)

\* C23: a runs-on mapping that lists no key twice, with no group and no
\* label, is rejected with the error `runs-on must provide either ...
\* group ... or one or more ... labels ...`; one with a group, or with at
\* least one label, is accepted as the Group of that group and those
\* labels.
C23_RunsOnValidator ==
    (/\ op = "RunsOn::deserialize"
     /\ de.kind = "map"
     /\ ~Duplicated("group") /\ ~Duplicated("labels")
     /\ NoGroup \/ HasGroup
     /\ LabelsReadable) =>
        IF NoGroup /\ LabelsOf = <<>>
        THEN result = Err(Custom(RunsOnInvalid))
        ELSE result = Ok(Group(IF NoGroup THEN None
                               ELSE Some(ValueOf("group").s),
                               LabelsOf))

\* The mapping `group: (null), labels: []` was rejected with the error
C23_Witness ==
    /\ op = "RunsOn::deserialize"
    /\ de = Map(<<Entry("group", Null), Entry("labels", List(<<>>))>>)
    /\ result = Err(Custom(RunsOnInvalid))

\* C24: every RunsOn value that decodes carries at least one selector: a
\* Target has at least one label, a Group has a group or at least one
\* label.
C24_AtLeastOneSelector ==
    (op = "RunsOn::deserialize" /\ result.ok) =>
        IF result.val.variant = "Target"
        THEN result.val.val # <<>>
        ELSE IsSome(result.val.group) \/ result.val.labels # <<>>

---------------------------------------------------------------------------
(* Vocabulary of the properties of the decode errors and defaults *)

\* The text w occurs in the text s
Occurs(w, s) ==
    \E i \in 1..(Len(s) - Len(w) + 1) : SubSeq(s, i, i + Len(w) - 1) = w

\* A message names the interpretation as an expression
NamesExpression(msg) ==
    \/ Occurs(<<"E", "x", "p", "r">>, msg)
    \/ Occurs(<<"e", "x", "p", "r">>, msg)

\* A message names the interpretation as a literal
NamesLiteral(msg) ==
    \/ Occurs(<<"L", "i", "t", "e", "r", "a", "l">>, msg)
    \/ Occurs(<<"l", "i", "t", "e", "r", "a", "l">>, msg)
    \/ Occurs(<<"b", "o", "o", "l">>, msg)
    \/ Occurs(<<"S", "t", "r", "i", "n", "g">>, msg)
    \/ Occurs(<<"s", "t", "r", "i", "n", "g">>, msg)

\* The type T of the entry point LoE<T>::deserialize that ran last
LoEType == IF op = "LoE<String>::deserialize" THEN "String" ELSE "bool"

\* The value under decode is of the literal type T
IsLiteralOf(T, v) == IF T = "String" THEN v.kind = "str" ELSE v.kind = "bool"

LoEDefaultOps ==
    {"LoE<bool>::default", "LoE<String>::default", "LoE<Env>::default"}

---------------------------------------------------------------------------
(* Properties of the decode errors, of the default of LoE and of If *)

\* C25: a value decoded as ExplicitExpr is accepted iff it is a string whose
\* trimmed form starts with `${{` and ends with `}}`, and then holds that
\* string; a string without the opening, without the closing or without
\* both fails with the error `invalid expression: expected ... delimiters`
\* and no value is built.
C25_ExprOnlyIsFatal ==
    op = "ExplicitExpr::deserialize" =>
        /\ result.ok <=> IsCurlyValue(de)
        /\ result.ok => result.val = ExplicitExpr(de.s) /\ expr = Some(result.val)
        /\ (de.kind = "str" /\ ~IsCurlyText(de.s)) =>
               /\ result = Err(Custom(InvalidExpression))
               /\ expr = None

\* A string with the opening delimiter and no closing one was rejected
C25_Witness ==
    /\ op = "ExplicitExpr::deserialize"
    /\ de.kind = "str"
    /\ StartsWith(Trimmed(de.s), CurlyOpen)
    /\ ~EndsWith(Trimmed(de.s), CurlyClose)
    /\ result = Err(Custom(InvalidExpression))

\* C26: an input that is neither a curly-delimited string nor a value of T
\* makes LoE<T> fail with an error that names both attempted
\* interpretations.  The derived untagged decoder drops the errors of its
\* variants and returns `data did not match any variant of untagged enum
\* LoE`, so this does not hold of the code.
C26_ErrorNamesBoth ==
    (/\ op \in LoEOps
     /\ ~IsCurlyValue(de)
     /\ ~IsLiteralOf(LoEType, de)) =>
        /\ ~result.ok
        /\ NamesExpression(result.err.msg)
        /\ NamesLiteral(result.err.msg)

\* C27: the default of LoE<T> is the Literal variant holding the default of
\* T: false for bool, the empty string for String, the empty map for Env;
\* it is never the Expr variant.
C27_DefaultIsLiteral ==
    op \in LoEDefaultOps =>
        /\ result.ok
        /\ result.val.variant = "Literal"
        /\ result.val.variant # "Expr"
        /\ IF op = "LoE<bool>::default"
           THEN result.val.val = FALSE
           ELSE result.val.val = <<>>
        /\ expr = None

\* An absent LoE<bool> field took the value Literal(false)
C27_Witness ==
    /\ op = "LoE<bool>::default"
    /\ result.ok
    /\ result.val.variant = "Literal"
    /\ result.val.val = FALSE

\* C28 as stated: a curly-delimited `if:` value is not accepted.
C28_CurlyIfRejected ==
    (op = "If::deserialize" /\ IsCurlyValue(de)) => ~result.ok

\* C28, amended: an `if:` value decodes as If::Bool for a boolean and as
\* If::Expr for any string, curly-delimited or not, the string kept as it
\* is; no other value decodes.
C28_IfTakesAnyString ==
    op = "If::deserialize" =>
        /\ de.kind = "bool" => result = Ok([variant |-> "Bool", val |-> de.b])
        /\ de.kind = "str" => result = Ok([variant |-> "Expr", val |-> de.s])
        /\ result.ok <=> de.kind \in {"bool", "str"}

\* A curly-delimited `if:` value was accepted as If::Expr
C28_Witness ==
    /\ op = "If::deserialize"
    /\ IsCurlyValue(de)
    /\ result.ok
    /\ result.val.variant = "Expr"
    /\ result.val.val = de.s

---------------------------------------------------------------------------
(* Properties that relate the reference parsers to each other and to the    *)
(* text they parse                                                          *)

\* C29: reusable_step_uses only restricts step_uses: when it succeeds on an
\* input, step_uses succeeds on that input and returns the same value; when
\* step_uses fails, on a value that is no string or on a reference that does
\* not parse (slug too short), reusable_step_uses fails with the same error.
C29_ReusableRestrictsStep ==
    op = "reusable_step_uses" =>
        /\ result.ok =>
               /\ step_uses(deIsStr, input).ok
               /\ result = step_uses(deIsStr, input)
               /\ deIsStr
               /\ result.val = Uses_from_str(input).val
        /\ ~step_uses(deIsStr, input).ok =>
               /\ ~result.ok
               /\ result = step_uses(deIsStr, input)
        /\ (deIsStr /\ ~Uses_from_str(input).ok) =>
               result = Err(Custom(MalformedUses \o SlugTooShort \o input))

\* reusable_step_uses rejected a reference whose slug is too short
C29_Witness ==
    /\ op = "reusable_step_uses"
    /\ deIsStr
    /\ ~HasLocalPrefix(input)
    /\ ~HasDockerPrefix(input)
    /\ ~Contains(input, "/")
    /\ Contains(input, "@")
    /\ result = Err(Custom(MalformedUses \o SlugTooShort \o input))

\* The text of a parsed repository reference, put together again
Rejoined(u) ==
    u.owner \o <<"/">> \o u.repo
        \o (IF IsSome(u.subpath) THEN <<"/">> \o Unwrap(u.subpath) ELSE <<>>)
        \o (IF IsSome(u.git_ref) THEN <<"@">> \o Unwrap(u.git_ref) ELSE <<>>)

\* C30: repository parsing loses no character: owner, `/`, repo, then `/`
\* and the subpath when there is one, then `@` and the ref when there is
\* one, give back the text that was parsed; owner and repo hold no `/` and
\* the ref holds no `@`.
C30_RepositoryLossless ==
    (op = "RepositoryUses::from_str" /\ result.ok) =>
        /\ Rejoined(result.val) = input
        /\ ~Contains(result.val.owner, "/")
        /\ ~Contains(result.val.repo, "/")
        /\ IsSome(result.val.git_ref) =>
               ~Contains(Unwrap(result.val.git_ref), "@")

\* A reference with an empty subpath and an empty ref was parsed
C30_Witness ==
    /\ op = "RepositoryUses::from_str"
    /\ result.ok
    /\ result.val.subpath = Some(<<>>)
    /\ result.val.git_ref = Some(<<>>)

=============================================================================
